---- MODULE Spec2Model ----
(***************************************************************************)
(* A model of gomcp's line-delimited JSON-RPC core.                        *)
(*                                                                         *)
(*   ClientSpec  the stdio client (src/README.md, package client):         *)
(*               concurrent callers of sendRequest, the background reader  *)
(*               readResponses, and the lines the server process writes.   *)
(*   ServerSpec  the stdio server (src/server/stdio.go and its other       *)
(*               revision src/unnamed/part_002) around MCPServer.Request   *)
(*               (src/server/server.go).                                   *)
(*                                                                         *)
(* JSON values are modelled by their shape: a line records whether it is   *)
(* valid JSON, which envelope members it has and of which JSON type; the   *)
(* decoders are modelled by what encoding/json does with each shape.       *)
(***************************************************************************)
EXTENDS Integers, Sequences, FiniteSets, TLC

\* ------------------------------------------------------------------ bounds
NumCallers == 2
MaxCalls == 2
MaxLines == 2
MaxServerLines == 2

\* ------------------------------------------------------- program constants
JSONRPCVersion == "2.0"
ErrorCodeParseError == -32700
ErrorCodeInvalidRequest == -32600
ErrorCodeMethodNotFound == -32601
ErrorCodeInvalidParams == -32602
ErrorCodeInternalError == -32603

MethodInitialize == "initialize"
MethodPing == "ping"

\* ------------------------------------------------------------- JSON shapes
\* The id member of a line: absent, the literal null, a number or a string.
\* A number is the integer v, or with big the integer 2^53 + v.
IdAbsent == [t |-> "absent", big |-> FALSE, v |-> 0]
IdNull == [t |-> "null", big |-> FALSE, v |-> 0]
IdNum(n) == [t |-> "num", big |-> FALSE, v |-> n]
IdBig(n) == [t |-> "num", big |-> TRUE, v |-> n]
IdStr(n) == [t |-> "str", big |-> FALSE, v |-> n]

\* What encoding/json stores in a field of type interface{}: a JSON number
\* becomes a float64, a string a string, null (or an absent member) nil.
GoDynType(id) ==
    CASE id.t = "num" -> "float64"
      [] id.t = "str" -> "string"
      [] OTHER -> "nil"

VARIABLES
    \* ---- client (StdioMCPClient)
    requestID,      \* atomic.Int64
    responses,      \* sync.Map: the set of ids that have a channel stored
    chan,           \* the buffered (capacity 1) channel made for each id
    initialized,    \* bool
    pc,             \* each caller's position in sendRequest
    method,         \* each caller's method argument
    myId,           \* the id the caller's current request took (0: none)
    ctxDone,        \* whether the caller's ctx is cancelled
    ret,            \* what the caller's last sendRequest returned
    calls,          \* number of sendRequest calls started
    stdinBroken,    \* the pipe to the server no longer accepts writes
    closed,         \* Close has been called: c.done is closed
    wire,           \* the request lines written to stdin, in order
    reader,         \* "running", "exited": the readResponses goroutine
    crashed,        \* an unrecovered panic ended the client process
    nRead,          \* number of lines readResponses has read
    lastRead,       \* history: the line readResponses read last
    allocated,      \* history: the ids allocated, in allocation order
    cancelled,      \* history: the ids whose caller returned ctx.Err()
    \* ---- server (StdioServer + MCPServer)
    variant,        \* which revision of the stdio server runs
    notifyHandlers, \* the methods with a registered notification handler
    srv,            \* "serving", "returned", "crashed"
    srvRet,         \* what serve returned
    ctxCancelled,   \* the serve context has been cancelled
    stdoutBroken,   \* writes to os.Stdout fail from now on
    nIn,            \* number of input lines consumed
    nOut,           \* number of lines written to os.Stdout
    lastLine,       \* history: the line handled last
    lastOut,        \* history: the write calls made while handling lastLine
    lastBranch,     \* history: the branch of handleMessage lastLine took
    prevBranch,     \* history: the branch the line before lastLine took
    prevKind,       \* history: the kind (k) of the line before lastLine
    lastReq,        \* history: what MCPServer.Request did for lastLine
    dropped,        \* history: a line taken from stdin and never handled
    \* ---- one request followed from sendRequest to the server and back
    trip,
    \* ---- the serve loop step by step: its reads, handler calls and writes
    loop

clientVars == <<requestID, responses, chan, initialized, pc, method,
                myId, ctxDone, ret, calls, stdinBroken, closed, wire, reader,
                crashed, nRead, lastRead, allocated, cancelled>>
serverVars == <<variant, notifyHandlers, srv, srvRet, ctxCancelled,
                stdoutBroken, nIn, nOut, lastLine, lastOut, lastBranch,
                prevBranch, prevKind, lastReq, dropped>>
tripVars == <<trip>>
loopVars == <<loop>>
vars == <<clientVars, serverVars, tripVars, loopVars>>

\* ================================================================ client
Callers == 1..NumCallers
Ids == 1..(MaxCalls + 1)

ClientMethods == {MethodInitialize, MethodPing}

\* The lines the server process may write to the client's stdout pipe.
\*   k       "bad": not JSON; "null": the JSON literal null; "object"
\*   id      the id member
\*   jsonrpc whether the jsonrpc member is present
\*   result  "absent", "null" or "value": the result member
\*   error   whether the error member is present
RespLine(k, id, j, r, e) == [k |-> k, id |-> id, jsonrpc |-> j, result |-> r, error |-> e]
BadLine == RespLine("bad", IdAbsent, FALSE, "absent", FALSE)
NullLine == RespLine("null", IdAbsent, FALSE, "absent", FALSE)
ResultLine(id) == RespLine("object", id, TRUE, "value", FALSE)
ErrorLine(id) == RespLine("object", id, TRUE, "absent", TRUE)
NoLine == RespLine("none", IdAbsent, FALSE, "absent", FALSE)

WireIds == {IdNum(n) : n \in Ids} \cup {IdStr(1), IdNull, IdAbsent}

ClientLines ==
    {BadLine, NullLine}
    \cup {ResultLine(id) : id \in WireIds}
    \cup {ErrorLine(IdNum(n)) : n \in 1..MaxCalls}
    \cup {RespLine("object", IdNum(1), FALSE, "value", FALSE)}
    \cup {RespLine("object", IdNum(1), TRUE, "null", FALSE)}

\* JSONRPCResponse.UnmarshalJSON: the line must be JSON; unless it is the
\* literal null (raw == nil skips the checks) it must be an object with the
\* members id, jsonrpc and result; then the plain struct is decoded.
UnmarshalResponse(line) ==
    IF line.k = "bad"
    THEN [ok |-> FALSE, Id |-> IdNull, resultNil |-> TRUE, hasError |-> FALSE]
    ELSE IF line.k = "null"
    THEN [ok |-> TRUE, Id |-> IdNull, resultNil |-> TRUE, hasError |-> FALSE]
    ELSE IF line.id.t = "absent" \/ ~line.jsonrpc \/ line.result = "absent"
    THEN [ok |-> FALSE, Id |-> IdNull, resultNil |-> TRUE, hasError |-> FALSE]
    ELSE [ok |-> TRUE, Id |-> line.id, resultNil |-> (line.result = "null"),
          hasError |-> line.error]

\* response.Id.(int64): the single-value type assertion panics unless the
\* dynamic type of Id is int64.
IdAssertPanics(id) == GoDynType(id) # "int64"

\* The value readResponses sends on the channel: nil signals an error.
Delivered(r) == [nil |-> (r.hasError \/ r.resultNil), from |-> r.Id.v]

\* What sendRequest returned: the kind of outcome, the id the request had
\* taken (0: none) and, for a result, the id of the response it came from.
NoRet == [kind |-> "none", id |-> 0, from |-> 0]
Ret(k, i) == [kind |-> k, id |-> i, from |-> 0]

ClientInit ==
    /\ requestID = 0
    /\ responses = {}
    /\ chan = [i \in Ids |-> <<>>]
    /\ initialized = FALSE
    /\ pc = [c \in Callers |-> "idle"]
    /\ method = [c \in Callers |-> MethodInitialize]
    /\ myId = [c \in Callers |-> 0]
    /\ ctxDone = [c \in Callers |-> FALSE]
    /\ ret = [c \in Callers |-> NoRet]
    /\ calls = 0
    /\ stdinBroken = FALSE
    /\ closed = FALSE
    /\ wire = <<>>
    /\ reader = "running"
    /\ crashed = FALSE
    /\ nRead = 0
    /\ lastRead = NoLine
    /\ allocated = <<>>
    /\ cancelled = {}

\* sendRequest returns r to caller c: its locals are gone.
Return(c, r) ==
    /\ pc' = [pc EXCEPT ![c] = "idle"]
    /\ ret' = [ret EXCEPT ![c] = r]
    /\ method' = [method EXCEPT ![c] = MethodInitialize]
    /\ myId' = [myId EXCEPT ![c] = 0]
    /\ ctxDone' = [ctxDone EXCEPT ![c] = FALSE]

\* sendRequest goes on to position p.
Goto(c, p) ==
    /\ pc' = [pc EXCEPT ![c] = p]
    /\ UNCHANGED <<ret, method, myId, ctxDone>>

\* A caller enters sendRequest(ctx, m, params) with a fresh ctx.
Call(c, m) ==
    /\ ~crashed /\ pc[c] = "idle" /\ calls < MaxCalls
    /\ pc' = [pc EXCEPT ![c] = "check"]
    /\ method' = [method EXCEPT ![c] = m]
    /\ ret' = [ret EXCEPT ![c] = NoRet]
    /\ calls' = calls + 1
    /\ UNCHANGED <<requestID, responses, chan, initialized, myId, ctxDone,
                   stdinBroken, wire, reader, crashed, nRead, lastRead,
                   allocated, cancelled>>
    /\ UNCHANGED <<closed, serverVars, tripVars, loopVars>>

\* The caller's ctx is cancelled (or its deadline passes) during the call.
Cancel(c) ==
    /\ ~crashed /\ pc[c] # "idle" /\ ~ctxDone[c]
    /\ ctxDone' = [ctxDone EXCEPT ![c] = TRUE]
    /\ UNCHANGED <<requestID, responses, chan, initialized, pc, method,
                   myId, ret, calls, stdinBroken, wire, reader, crashed, nRead,
                   lastRead, allocated, cancelled>>
    /\ UNCHANGED <<closed, serverVars, tripVars, loopVars>>

\* The server end of the stdin pipe goes away: writes fail from now on.
BreakStdin ==
    /\ ~crashed /\ ~stdinBroken
    /\ stdinBroken' = TRUE
    /\ UNCHANGED <<requestID, responses, chan, initialized, pc, method,
                   myId, ctxDone, ret, calls, wire, reader, crashed, nRead,
                   lastRead, allocated, cancelled>>
    /\ UNCHANGED <<closed, serverVars, tripVars, loopVars>>

\* Close(): close(c.done), then c.stdin.Close(); cmd.Wait() only waits.
Close ==
    /\ ~crashed /\ ~closed
    /\ closed' = TRUE
    /\ stdinBroken' = TRUE
    /\ UNCHANGED <<requestID, responses, chan, initialized, pc, method,
                   myId, ctxDone, ret, calls, wire, reader, crashed, nRead,
                   lastRead, allocated, cancelled>>
    /\ UNCHANGED <<serverVars, tripVars, loopVars>>

\* A faulty variant: the check is missing, as in the revision that does not enforce it.
NoInitializedCheck(init, m) == FALSE

\* if !c.initialized && method != "initialize"
NotInitializedCheck(init, m) == ~init /\ m # MethodInitialize

CheckInitialized(c) ==
    /\ ~crashed /\ pc[c] = "check"
    /\ IF NotInitializedCheck(initialized, method[c])
       THEN Return(c, Ret("notInitialized", 0))
       ELSE Goto(c, "alloc")
    /\ UNCHANGED <<requestID, responses, chan, initialized, calls, stdinBroken,
                   wire, reader, crashed, nRead, lastRead, allocated, cancelled>>
    /\ UNCHANGED <<closed, serverVars, tripVars, loopVars>>

\* A faulty variant: a lost update, the counter is stuck at its first value.
AddOneLost(r) == IF r >= 1 THEN r ELSE r + 1

\* c.requestID.Add(1): the new value of the counter.
AddOne(r) == r + 1

\* id := c.requestID.Add(1), then json.Marshal(params), which succeeds
\* (paramsOK) or fails depending on the params the caller passed.
AllocId(c, paramsOK) ==
    /\ ~crashed /\ pc[c] = "alloc"
    /\ requestID' = AddOne(requestID)
    /\ allocated' = Append(allocated, requestID')
    /\ IF paramsOK
       THEN /\ pc' = [pc EXCEPT ![c] = "store"]
            /\ myId' = [myId EXCEPT ![c] = requestID']
            /\ UNCHANGED <<ret, method, ctxDone>>
       ELSE Return(c, Ret("marshalError", requestID'))
    /\ UNCHANGED <<responses, chan, initialized, calls, stdinBroken, wire, reader,
                   crashed, nRead, lastRead, cancelled>>
    /\ UNCHANGED <<closed, serverVars, tripVars, loopVars>>

\* responseChan := make(chan json.RawMessage, 1); c.responses.Store(id, ch)
StoreChan(c) ==
    /\ ~crashed /\ pc[c] = "store"
    /\ responses' = responses \cup {myId[c]}
    /\ chan' = [chan EXCEPT ![myId[c]] = <<>>]
    /\ Goto(c, "write")
    /\ UNCHANGED <<requestID, initialized, calls, stdinBroken, wire, reader,
                   crashed, nRead, lastRead, allocated, cancelled>>
    /\ UNCHANGED <<closed, serverVars, tripVars, loopVars>>

\* requestBytes: the request json.Marshal(request) produces (json) with
\* the '\n' appended to it (nl), in one buffer.
RequestLine(id, m) ==
    [id |-> IdNum(id), jsonrpc |-> JSONRPCVersion, method |-> m,
     json |-> TRUE, nl |-> TRUE]

\* A faulty variant: the request and its newline go out in two Write calls.
WriteRequestInTwoCalls(c) ==
    /\ ~crashed /\ pc[c] = "write"
    /\ IF stdinBroken
       THEN /\ Return(c, Ret("writeError", myId[c]))
            /\ wire' = wire
       ELSE IF \E i \in 1..Len(wire) : wire[i].id = IdNum(myId[c])
       THEN /\ Goto(c, "await")
            /\ wire' = Append(wire, [RequestLine(myId[c], method[c]) EXCEPT !.json = FALSE])
       ELSE /\ UNCHANGED <<pc, ret, method, myId, ctxDone>>
            /\ wire' = Append(wire, [RequestLine(myId[c], method[c]) EXCEPT !.nl = FALSE])
    /\ UNCHANGED <<requestID, responses, chan, initialized, calls, stdinBroken,
                   reader, crashed, nRead, lastRead, allocated, cancelled>>
    /\ UNCHANGED <<closed, serverVars, tripVars, loopVars>>

\* c.stdin.Write(requestBytes): one Write call on the *os.File of the pipe,
\* which holds the descriptor's write lock until the whole buffer is out.
WriteRequest(c) ==
    /\ ~crashed /\ pc[c] = "write"
    /\ IF stdinBroken
       THEN /\ Return(c, Ret("writeError", myId[c]))
            /\ wire' = wire
       ELSE /\ Goto(c, "await")
            /\ wire' = Append(wire, RequestLine(myId[c], method[c]))
    /\ UNCHANGED <<requestID, responses, chan, initialized, calls, stdinBroken,
                   reader, crashed, nRead, lastRead, allocated, cancelled>>
    /\ UNCHANGED <<closed, serverVars, tripVars, loopVars>>

\* The cases of the final select that are ready.
SelectReady(c) ==
    (IF ctxDone[c] THEN {"ctx"} ELSE {})
    \cup (IF Len(chan[myId[c]]) > 0 THEN {"response"} ELSE {})

\* A faulty variant: Initialize sets the flag whatever sendRequest returned.
InitializeSetsAlways(m, kind, decodes) == m = MethodInitialize

\* The rest of Initialize after sendRequest returned: c.initialized = true
\* only if sendRequest returned a result (kind) and json.Unmarshal of that
\* result into an InitializeResult succeeded (decodes).
InitializeSets(m, kind, decodes) ==
    m = MethodInitialize /\ kind = "result" /\ decodes

\* A faulty variant: cancelling one request forgets every pending request.
DeleteEvery(r, id) == {}

\* c.responses.Delete(id)
Delete(r, id) == r \ {id}

\* select { case <-ctx.Done(): ...; case response := <-responseChan: ... }
\* and, for initialize, the rest of Initialize.
Await(c) ==
    /\ ~crashed /\ pc[c] = "await"
    /\ \E br \in SelectReady(c), decodes \in BOOLEAN :
        IF br = "ctx"
        THEN /\ responses' = Delete(responses, myId[c])
             /\ Return(c, Ret("cancelled", myId[c]))
             /\ cancelled' = cancelled \cup {myId[c]}
             /\ initialized' = (initialized
                                \/ InitializeSets(method[c], "cancelled", decodes))
             /\ UNCHANGED chan
        ELSE /\ chan' = [chan EXCEPT ![myId[c]] = Tail(@)]
             /\ Return(c, IF Head(chan[myId[c]]).nil
                          THEN Ret("requestFailed", myId[c])
                          ELSE [kind |-> "result", id |-> myId[c],
                                from |-> Head(chan[myId[c]]).from])
             /\ initialized' = (initialized
                                \/ InitializeSets(method[c],
                                                  IF Head(chan[myId[c]]).nil
                                                  THEN "requestFailed" ELSE "result",
                                                  decodes))
             /\ UNCHANGED <<responses, cancelled>>
    /\ UNCHANGED <<requestID, calls, stdinBroken, wire, reader, crashed, nRead,
                   lastRead, allocated>>
    /\ UNCHANGED <<closed, serverVars, tripVars, loopVars>>

\* One iteration of readResponses: ReadString, blocked until now, returns a
\* line the server wrote; the line is handled and the select at the top of
\* the loop returns if c.done is closed.
readResponses(line) ==
    /\ ~crashed /\ reader = "running" /\ nRead < MaxLines
    /\ nRead' = nRead + 1
    /\ lastRead' = line
    /\ LET response == UnmarshalResponse(line) IN
        IF ~response.ok
        THEN UNCHANGED <<crashed, chan, responses>>
        ELSE IF IdAssertPanics(response.Id)
        THEN /\ crashed' = TRUE
             /\ UNCHANGED <<chan, responses>>
        ELSE /\ crashed' = FALSE
             /\ IF response.Id.v \in responses
                THEN /\ Len(chan[response.Id.v]) = 0
                     /\ chan' = [chan EXCEPT ![response.Id.v] =
                                     Append(@, Delivered(response))]
                     /\ responses' = responses \ {response.Id.v}
                ELSE UNCHANGED <<chan, responses>>
    /\ reader' = IF closed /\ ~crashed' THEN "exited" ELSE reader
    /\ UNCHANGED <<requestID, initialized, pc, method, myId, ctxDone,
                   ret, calls, stdinBroken, wire, allocated, cancelled>>
    /\ UNCHANGED <<closed, serverVars, tripVars, loopVars>>

\* case <-c.done: return, for a reader that has not started to read when
\* Close is called.
ReadDone ==
    /\ ~crashed /\ reader = "running" /\ closed /\ nRead = 0
    /\ reader' = "exited"
    /\ UNCHANGED <<requestID, responses, chan, initialized, pc, method,
                   myId, ctxDone, ret, calls, stdinBroken, wire, crashed, nRead,
                   lastRead, allocated, cancelled>>
    /\ UNCHANGED <<closed, serverVars, tripVars, loopVars>>

\* stdout.ReadString returns io.EOF or another error: readResponses returns.
ReadEOF ==
    /\ ~crashed /\ reader = "running"
    /\ reader' = "exited"
    /\ UNCHANGED <<requestID, responses, chan, initialized, pc, method,
                   myId, ctxDone, ret, calls, stdinBroken, wire, crashed, nRead,
                   lastRead, allocated, cancelled>>
    /\ UNCHANGED <<closed, serverVars, tripVars, loopVars>>

ClientNext ==
    \/ \E c \in Callers, m \in ClientMethods : Call(c, m)
    \/ \E c \in Callers : Cancel(c)
    \/ BreakStdin
    \/ Close
    \/ \E c \in Callers : CheckInitialized(c)
    \/ \E c \in Callers, paramsOK \in BOOLEAN : AllocId(c, paramsOK)
    \/ \E c \in Callers : StoreChan(c)
    \/ \E c \in Callers : WriteRequest(c)
    \/ \E c \in Callers : Await(c)
    \/ \E line \in ClientLines : readResponses(line)
    \/ ReadDone
    \/ ReadEOF

\* ================================================================ server
\* The input lines of the server.
\*   k       "bad": not JSON; "nonobject": JSON but no object (a number, an
\*           array); "null": the JSON literal null; "object"
\*   id      the id member
\*   jsonrpc "absent", or the string the jsonrpc member holds
\*   hasMethod, method   the method member
\*   params  "absent", "null", "empty" ({}), "valid" (an object that has
\*           every member the method reads), "invalid" (a value of the
\*           wrong JSON type for the method's parameter struct)
ReqLine(k, id, j, hm, m, p) ==
    [k |-> k, id |-> id, jsonrpc |-> j, hasMethod |-> hm, method |-> m, params |-> p]
NotJSON == ReqLine("bad", IdAbsent, "absent", FALSE, "", "absent")
NonObject == ReqLine("nonobject", IdAbsent, "absent", FALSE, "", "absent")
JSONNull == ReqLine("null", IdAbsent, "absent", FALSE, "", "absent")
NoReqLine == ReqLine("none", IdAbsent, "absent", FALSE, "", "absent")

NotificationMethods == {"notifications/initialized", "notifications/cancelled"}
\* Every method of the model that starts with notifications/.
PrefixedMethods == NotificationMethods \cup {"notifications/ping"}
\* The cases of the switch that return result.ToJSON(), and those that
\* return nil with the handler's error.
ResultMethods ==
    {"resources/list", "resources/read", "prompts/list", "prompts/get",
     "tools/list", "tools/call", "completion/complete"}
NoResultMethods == {"resources/subscribe", "resources/unsubscribe", "logging/setLevel"}
RequestMethods ==
    {MethodInitialize, MethodPing, "unknown/thing"} \cup ResultMethods \cup NoResultMethods
ParamShapes == {"absent", "null", "empty", "valid", "invalid"}
\* The methods whose lines come with every shape of params.
ShapedMethods ==
    {MethodInitialize, "resources/list", "resources/subscribe"} \cup NotificationMethods

ServerLines ==
    {NotJSON, NonObject, JSONNull}
    \cup {ReqLine("object", IdNum(5), JSONRPCVersion, TRUE, m, p) :
            m \in ShapedMethods, p \in ParamShapes}
    \cup {ReqLine("object", IdNum(5), JSONRPCVersion, TRUE, m, "valid") :
            m \in {"tools/call", "logging/setLevel"}}
    \cup {ReqLine("object", IdAbsent, JSONRPCVersion, TRUE, m, p) :
            m \in NotificationMethods, p \in ParamShapes}
    \cup {ReqLine("object", id, JSONRPCVersion, TRUE, m, "absent") :
            id \in {IdNum(5), IdNum(6), IdStr(1), IdNull, IdAbsent},
            m \in {MethodPing, "unknown/thing"}}
    \cup {ReqLine("object", id, JSONRPCVersion, TRUE, MethodPing, "absent") :
            id \in {IdBig(1), IdBig(2)}}
    \cup {ReqLine("object", IdNum(5), JSONRPCVersion, TRUE, "notifications/ping", "valid")}
    \cup {ReqLine("object", id, "1.0", TRUE, MethodPing, "absent") :
            id \in {IdNum(1), IdStr(1), IdNull, IdAbsent}}
    \cup {ReqLine("object", id, "absent", TRUE, MethodPing, "absent") :
            id \in {IdNum(5), IdAbsent}}
    \cup {ReqLine("object", id, JSONRPCVersion, FALSE, "", "absent") :
            id \in {IdNum(5), IdAbsent}}

\* A faulty variant: the method is compared with one name, not its prefix.
HasNotificationsName(m) == m = "notifications/initialized"

\* strings.HasPrefix(method, "notifications/") on the methods of the model.
HasNotificationsPrefix(m) == m \in PrefixedMethods

\* strconv.ParseFloat of the integer 2^53 + n (0 <= n < 2^53): a float64
\* has a 53-bit significand, so the value is rounded to the nearest even
\* integer, a tie going to the even significand.  Below 2^53 every integer
\* is exact.
RoundToFloat64(big, n) ==
    IF ~big THEN n
    ELSE CASE n % 2 = 0 -> n
           [] n % 4 = 1 -> n - 1
           [] OTHER -> n + 1

\* The Go value json.Unmarshal stores for the id member in Id interface{}.
DecodeId(id) ==
    IF id.t = "num"
    THEN [gt |-> "float64", big |-> id.big, v |-> RoundToFloat64(id.big, id.v)]
    ELSE [gt |-> GoDynType(id), big |-> FALSE, v |-> id.v]
\* The JSON json.Marshal writes for that Go value: a float64 of integral
\* value below 1e21 is written as its decimal digits.
MarshalId(g) ==
    CASE g.gt = "float64" -> IF g.big THEN IdBig(g.v) ELSE IdNum(g.v)
      [] g.gt = "string" -> IdStr(g.v)
      [] OTHER -> IdNull
NilId == [gt |-> "nil", big |-> FALSE, v |-> 0]

\* JSONRPCRequest.UnmarshalJSON, as json.Unmarshal(line, &request) runs it.
UnmarshalRequest(line) ==
    IF line.k \in {"bad", "nonobject"}
    THEN [ok |-> FALSE, Id |-> NilId, Jsonrpc |-> "", Method |-> "", Params |-> "absent"]
    ELSE IF line.k = "null"
    THEN [ok |-> TRUE, Id |-> NilId, Jsonrpc |-> "", Method |-> "", Params |-> "absent"]
    ELSE IF line.id.t = "absent" \/ line.jsonrpc = "absent" \/ ~line.hasMethod
    THEN [ok |-> FALSE, Id |-> NilId, Jsonrpc |-> "", Method |-> "", Params |-> "absent"]
    ELSE [ok |-> TRUE, Id |-> DecodeId(line.id), Jsonrpc |-> line.jsonrpc,
          Method |-> line.method, Params |-> line.params]

\* Error texts: the text and, for "method not found: %s", the method.
Msg(t) == [text |-> t, arg |-> ""]
MsgOf(t, a) == [text |-> t, arg |-> a]

\* What a handler call may do: succeed, fail, or fail with io.EOF.
HandlerOutcomes == {"ok", "err", "eof"}
HandlerError(h) == IF h = "eof" THEN Msg("EOF") ELSE Msg("handler failed")

ReqOk(r) == [kind |-> "ok", result |-> r, msg |-> Msg(""), isEOF |-> FALSE]
ReqErr(m, eof) == [kind |-> "err", result |-> "nil", msg |-> m, isEOF |-> eof]
ReqPanic == [kind |-> "panic", result |-> "nil", msg |-> Msg(""), isEOF |-> FALSE]

\* json.Unmarshal(params, &p) for the anonymous parameter structs: an empty
\* input or a value of the wrong type is an error; null and {} are not.
StructDecodeFails(p) == p \in {"absent", "invalid"}
\* json.Unmarshal(params, &notification): Notification.UnmarshalJSON also
\* requires the member "method" of an object.
NotificationDecodeFails(p) == p \in {"absent", "invalid", "empty"}

\* A faulty variant: the error of the notification handler is dropped.
NotifyIgnoresError(m, p, h, nh) ==
    IF NotificationDecodeFails(p)
    THEN ReqErr(Msg("failed to parse notification"), FALSE)
    ELSE IF m \notin nh
    THEN ReqPanic
    ELSE ReqOk("nil")

\* The notifications/ branch of MCPServer.Request: the params are decoded
\* into a Notification and s.notifyHandlers[method].Handle is called, on a
\* nil interface when no handler is registered; its error is returned.
Notify(m, p, h, nh) ==
    IF NotificationDecodeFails(p)
    THEN ReqErr(Msg("failed to parse notification"), FALSE)
    ELSE IF m \notin nh
    THEN ReqPanic
    ELSE IF h = "ok" THEN ReqOk("nil") ELSE ReqErr(HandlerError(h), h = "eof")

\* MCPServer.Request(ctx, method, params) with handler outcome h and the
\* registered notification handlers nh.
Request(m, p, h, nh) ==
    IF HasNotificationsPrefix(m)
    THEN Notify(m, p, h, nh)
    ELSE IF m = MethodInitialize
    THEN IF StructDecodeFails(p)
         THEN ReqErr(Msg("failed to parse parameters"), FALSE)
         ELSE IF p \in {"null", "empty"}
         THEN ReqPanic
         ELSE IF h = "ok" THEN ReqOk("value") ELSE ReqErr(HandlerError(h), h = "eof")
    ELSE IF m = MethodPing
    THEN IF h = "ok" THEN ReqOk("nil") ELSE ReqErr(HandlerError(h), h = "eof")
    ELSE IF m \in ResultMethods \cup NoResultMethods
    THEN IF StructDecodeFails(p)
         THEN ReqErr(Msg("failed to parse parameters"), FALSE)
         ELSE IF h # "ok"
         THEN ReqErr(HandlerError(h), h = "eof")
         ELSE IF m \in ResultMethods THEN ReqOk("value") ELSE ReqOk("nil")
    ELSE ReqErr(MsgOf("method not found", m), FALSE)

\* The handler whose operation MCPServer.Request calls: "notification",
\* "system", "resource", "prompt", "tool", or "none" when it returns or
\* panics before any call.
Invoked(m, p, nh) ==
    IF HasNotificationsPrefix(m)
    THEN IF NotificationDecodeFails(p) \/ m \notin nh THEN "none" ELSE "notification"
    ELSE IF m = MethodInitialize
    THEN IF StructDecodeFails(p) \/ p \in {"null", "empty"} THEN "none" ELSE "system"
    ELSE IF m = MethodPing
    THEN "system"
    ELSE IF m \in ResultMethods \cup NoResultMethods
    THEN IF StructDecodeFails(p) THEN "none"
         ELSE IF m \in {"tools/call", "tools/list"} THEN "tool"
         ELSE IF m \in {"logging/setLevel", "completion/complete"} THEN "system"
         ELSE IF m \in {"prompts/list", "prompts/get"} THEN "prompt"
         ELSE "resource"
    ELSE "none"

\* A faulty variant: the method names are compared without regard to case.
OperationFoldingCase(m) ==
    CASE m \in {MethodInitialize, "Initialize"} -> "system.Initialize"
      [] m \in {MethodPing, "Ping"} -> "system.Ping"
      [] m = "resources/list" -> "resource.List"
      [] m = "resources/read" -> "resource.Read"
      [] m = "resources/subscribe" -> "resource.Subscribe"
      [] m = "resources/unsubscribe" -> "resource.Unsubscribe"
      [] m = "prompts/list" -> "prompt.List"
      [] m = "prompts/get" -> "prompt.Get"
      [] m = "tools/list" -> "tool.List"
      [] m = "tools/call" -> "tool.Call"
      [] m = "logging/setLevel" -> "system.SetLevel"
      [] m = "completion/complete" -> "system.Complete"
      [] OTHER -> "none"

\* switch method: the handler operation the case of the method calls, "none"
\* for the default case.
Operation(m) ==
    CASE m = MethodInitialize -> "system.Initialize"
      [] m = MethodPing -> "system.Ping"
      [] m = "resources/list" -> "resource.List"
      [] m = "resources/read" -> "resource.Read"
      [] m = "resources/subscribe" -> "resource.Subscribe"
      [] m = "resources/unsubscribe" -> "resource.Unsubscribe"
      [] m = "prompts/list" -> "prompt.List"
      [] m = "prompts/get" -> "prompt.Get"
      [] m = "tools/list" -> "tool.List"
      [] m = "tools/call" -> "tool.Call"
      [] m = "logging/setLevel" -> "system.SetLevel"
      [] m = "completion/complete" -> "system.Complete"
      [] OTHER -> "none"

\* The handler operations MCPServer.Request calls, in the order of the
\* calls: one call of the notification handler, one call of the operation
\* of the method's case, or none when Request returns or panics before it.
Calls(m, p, nh) ==
    IF HasNotificationsPrefix(m)
    THEN IF NotificationDecodeFails(p) \/ m \notin nh THEN <<>> ELSE <<"notification.Handle">>
    ELSE IF Operation(m) = "none"
    THEN <<>>
    ELSE IF m = MethodInitialize
    THEN IF StructDecodeFails(p) \/ p \in {"null", "empty"} THEN <<>> ELSE <<Operation(m)>>
    ELSE IF m = MethodPing
    THEN <<Operation(m)>>
    ELSE IF StructDecodeFails(p) THEN <<>> ELSE <<Operation(m)>>

\* A faulty variant: the lookup adds the key it does not find.
LookupInserts(nh, m) == nh \cup {m}

\* s.notifyHandlers[method]: an index expression that reads a Go map adds
\* no key, whether or not the key is found.
Lookup(nh, m) == nh

\* The keys of s.notifyHandlers after handleMessage has handled the line:
\* the map is touched only by the lookup of the notifications/ branch.
NotifyHandlersAfter(line, nh) ==
    LET request == UnmarshalRequest(line) IN
    IF /\ request.ok /\ request.Jsonrpc = JSONRPCVersion
       /\ HasNotificationsPrefix(request.Method)
       /\ ~NotificationDecodeFails(request.Params)
    THEN Lookup(nh, request.Method)
    ELSE nh

\* What the serve loop saw of MCPServer.Request for a line: whether it was
\* called, which handler it called, what that handler did ("none" when no
\* handler was called) and what Request returned.
NoReq == [called |-> FALSE, invoked |-> "none", handler |-> "none", ret |-> ReqOk("nil")]
ReqOf(line, h, nh) ==
    LET request == UnmarshalRequest(line) IN
    IF request.ok /\ request.Jsonrpc = JSONRPCVersion
    THEN LET inv == Invoked(request.Method, request.Params, nh) IN
         [called |-> TRUE, invoked |-> inv,
          handler |-> IF inv = "none" THEN "none" ELSE h,
          ret |-> Request(request.Method, request.Params, h, nh)]
    ELSE NoReq

\* The response lines.
ErrorResponse(id, code, msg) ==
    [kind |-> "error", id |-> id, code |-> code, msg |-> msg, result |-> "none"]
ResultResponse(id, r) ==
    [kind |-> "result", id |-> id, code |-> 0, msg |-> Msg(""),
     result |-> IF r = "nil" THEN "null" ELSE r]

\* A faulty variant: the error response never carries the request's id.
writeErrorNilId(id, code, msg) == <<ErrorResponse(IdNull, code, msg)>>

\* writeError(id, code, message)
writeError(id, code, msg) == <<ErrorResponse(MarshalId(id), code, msg)>>

ParseErrorText(v) ==
    IF v = "stdio" THEN Msg("Parse error") ELSE Msg("Failed to parse JSON-RPC request")
VersionErrorText(v) ==
    IF v = "stdio" THEN Msg("Invalid Request") ELSE Msg("Invalid JSON-RPC version")
InternalErrorText(v, e) ==
    IF v = "stdio" THEN e.msg ELSE Msg("Internal server error")

\* fmt.Errorf("...: %w", err): a new error value, never == io.EOF.
Wrapped == [isNil |-> FALSE, isEOF |-> FALSE]
NilError == [isNil |-> TRUE, isEOF |-> FALSE]

\* handleMessage(ctx, line) in revision v: the write calls it makes, the
\* error it returns, and whether it panics.
handleMessage(line, h, nh, v) ==
    LET request == UnmarshalRequest(line) IN
    IF ~request.ok
    THEN [writes |-> writeError(NilId, ErrorCodeParseError, ParseErrorText(v)),
          err |-> Wrapped, panic |-> FALSE, branch |-> "parse"]
    ELSE IF request.Jsonrpc # JSONRPCVersion
    THEN [writes |-> writeError(request.Id, ErrorCodeInvalidRequest, VersionErrorText(v)),
          err |-> Wrapped, panic |-> FALSE, branch |-> "version"]
    ELSE LET res == Request(request.Method, request.Params, h, nh) IN
         IF res.kind = "panic"
         THEN [writes |-> <<>>, err |-> NilError, panic |-> TRUE,
               branch |-> "panic"]
         ELSE IF res.kind = "err"
         THEN [writes |-> writeError(request.Id, ErrorCodeInternalError,
                                     InternalErrorText(v, res)),
               err |-> Wrapped, panic |-> FALSE, branch |-> "error"]
         ELSE [writes |-> <<ResultResponse(MarshalId(request.Id), res.result)>>,
               err |-> IF stdoutBroken THEN Wrapped ELSE NilError, panic |-> FALSE,
               branch |-> "result"]

Variants == {"stdio", "part_002"}

ServerInit ==
    /\ variant \in Variants
    /\ notifyHandlers \in {{}, {"notifications/initialized", "notifications/ping"}}
    /\ srv = "serving"
    /\ srvRet = "none"
    /\ ctxCancelled = FALSE
    /\ stdoutBroken = FALSE
    /\ nIn = 0
    /\ nOut = 0
    /\ lastLine = NoReqLine
    /\ lastOut = <<>>
    /\ lastBranch = "none"
    /\ prevBranch = "none"
    /\ prevKind = "none"
    /\ lastReq = NoReq
    /\ dropped = NoReqLine

\* A faulty variant: any error of handleMessage ends the loop.
StopsOnAnyHandleError(e) == ~e.isNil

\* if err == io.EOF { return nil } after handleMessage
StopsOnHandleError(e) == ~e.isNil /\ e.isEOF

\* One iteration of the serve loop: the read, blocked until now, returns a
\* line, the line is handled, and the select at the top of the loop returns
\* nil if the context is cancelled by then.
ServeLine(line, h) ==
    /\ srv = "serving" /\ nIn < MaxServerLines
    /\ nIn' = nIn + 1
    /\ lastLine' = line
    /\ lastReq' = ReqOf(line, h, notifyHandlers)
    /\ notifyHandlers' = NotifyHandlersAfter(line, notifyHandlers)
    /\ LET r == handleMessage(line, h, notifyHandlers, variant) IN
        /\ lastOut' = r.writes
        /\ lastBranch' = r.branch
        /\ prevBranch' = lastBranch
        /\ prevKind' = lastLine.k
        /\ nOut' = IF stdoutBroken THEN nOut ELSE nOut + Len(r.writes)
        /\ srv' = IF r.panic THEN "crashed"
                  ELSE IF StopsOnHandleError(r.err) \/ ctxCancelled THEN "returned"
                  ELSE "serving"
        /\ srvRet' = IF ~r.panic /\ (StopsOnHandleError(r.err) \/ ctxCancelled)
                     THEN "nil" ELSE srvRet
    /\ UNCHANGED <<variant, ctxCancelled, stdoutBroken, dropped>>
    /\ UNCHANGED <<clientVars, tripVars, loopVars>>

\* reader.ReadString / reader.Scan reports the end of the input.
ServeEOF ==
    /\ srv = "serving"
    /\ srv' = "returned"
    /\ srvRet' = "nil"
    /\ UNCHANGED <<variant, notifyHandlers, ctxCancelled, stdoutBroken, nIn, nOut,
                   lastLine, lastOut, lastBranch, prevBranch,
                   prevKind, lastReq, dropped>>
    /\ UNCHANGED <<clientVars, tripVars, loopVars>>

\* reader.ReadString / reader.Scan reports a read error other than EOF.
ServeReadError ==
    /\ srv = "serving"
    /\ srv' = "returned"
    /\ srvRet' = "error"
    /\ UNCHANGED <<variant, notifyHandlers, ctxCancelled, stdoutBroken, nIn, nOut,
                   lastLine, lastOut, lastBranch, prevBranch,
                   prevKind, lastReq, dropped>>
    /\ UNCHANGED <<clientVars, tripVars, loopVars>>

\* SIGTERM or SIGINT arrives: done is closed and the serve context cancelled.
Signal ==
    /\ srv = "serving" /\ ~ctxCancelled
    /\ ctxCancelled' = TRUE
    /\ UNCHANGED <<variant, notifyHandlers, srv, srvRet, stdoutBroken, nIn, nOut,
                   lastLine, lastOut, lastBranch, prevBranch,
                   prevKind, lastReq, dropped>>
    /\ UNCHANGED <<clientVars, tripVars, loopVars>>

\* Whether the wait for a line also waits for ctx.Done(): the select of
\* stdio.go does, the reader.Scan() of part_002 does not.
ReadIsInterruptible(v) == v = "stdio"

\* case <-ctx.Done(): return nil, in the select that waits for the line or,
\* before the first read, in the select at the top of the loop.
ServeShutdown ==
    /\ srv = "serving" /\ ctxCancelled
    /\ ReadIsInterruptible(variant) \/ nIn = 0
    /\ srv' = "returned"
    /\ srvRet' = "nil"
    /\ UNCHANGED <<variant, notifyHandlers, ctxCancelled, stdoutBroken, nIn, nOut,
                   lastLine, lastOut, lastBranch, prevBranch,
                   prevKind, lastReq, dropped>>
    /\ UNCHANGED <<clientVars, tripVars, loopVars>>

\* The lines that may sit in readChan when the context is cancelled.
DroppableLines ==
    {NotJSON, ReqLine("object", IdNum(5), JSONRPCVersion, TRUE, MethodPing, "absent")}

\* stdio.go: the read goroutine has put a line into readChan and the context
\* is cancelled; the select takes <-ctx.Done() and serve returns nil with
\* the line read and not handled.
ServeShutdownDropsLine(line) ==
    /\ srv = "serving" /\ ctxCancelled
    /\ ReadIsInterruptible(variant)
    /\ srv' = "returned"
    /\ srvRet' = "nil"
    /\ dropped' = line
    /\ UNCHANGED <<variant, notifyHandlers, ctxCancelled, stdoutBroken, nIn, nOut,
                   lastLine, lastOut, lastBranch, prevBranch,
                   prevKind, lastReq>>
    /\ UNCHANGED <<clientVars, tripVars, loopVars>>

\* The reader of os.Stdout goes away: writes fail from now on.
BreakStdout ==
    /\ srv = "serving" /\ ~stdoutBroken
    /\ stdoutBroken' = TRUE
    /\ UNCHANGED <<variant, notifyHandlers, srv, srvRet, ctxCancelled, nIn, nOut,
                   lastLine, lastOut, lastBranch, prevBranch,
                   prevKind, lastReq, dropped>>
    /\ UNCHANGED <<clientVars, tripVars, loopVars>>

ServerNext ==
    \/ \E line \in ServerLines, h \in HandlerOutcomes : ServeLine(line, h)
    \/ ServeEOF
    \/ ServeReadError
    \/ Signal
    \/ ServeShutdown
    \/ \E line \in DroppableLines : ServeShutdownDropsLine(line)
    \/ BreakStdout

\* ============================================================ round trip
\* One request followed through the encoders and decoders of both programs:
\* sendRequest marshals it, handleMessage decodes and answers it,
\* readResponses decodes the answer and looks up the pending request.
MaxTripId == 3
TripIds == 1..MaxTripId
TripMethods ==
    {MethodInitialize, MethodPing, "resources/list", "resources/subscribe",
     "tools/call", "logging/setLevel"}
\* The params argument of sendRequest: the nil interface, a nil pointer, a
\* struct without members set ("empty"), a struct with its members.
TripParams == {"nil", "nilptr", "empty", "valid"}

\* paramsRaw: nil when params == nil, else json.Marshal(params).
MarshalParams(p) ==
    CASE p = "nil" -> "absent"
      [] p = "nilptr" -> "null"
      [] OTHER -> p

\* The line the server reads when the client wrote the buffer b with the
\* params member raw: omitempty leaves out a nil Params.
WireToServer(b, raw) == ReqLine("object", b.id, b.jsonrpc, TRUE, b.method, raw)

\* A faulty variant: one struct for both, whose result member is always
\* written.
WireToClientBoth(r) ==
    RespLine("object", r.id, TRUE,
             IF r.kind = "result" THEN r.result ELSE "null", r.kind = "error")

\* The line the client reads when the server wrote the response r: a
\* JSONRPCResponse has the members id, jsonrpc and result, a JSONRPCError
\* the members error, id and jsonrpc.
WireToClient(r) ==
    RespLine("object", r.id, TRUE,
             IF r.kind = "result" THEN r.result ELSE "absent", r.kind = "error")

\* The line of the other revisions' response struct, which has the members
\* result and error and leaves out the one that is not set.
WireToClientOther(r) ==
    RespLine("object", r.id, TRUE,
             IF r.kind = "result" THEN r.result ELSE "absent", r.kind = "error")

\* The line revision v of the server puts on the wire for the response r.
WireOf(r, v) == IF v = "stdio" THEN WireToClient(r) ELSE WireToClientOther(r)

NoTrip ==
    [stage |-> "idle", id |-> 0, method |-> "", params |-> "nil",
     line |-> NoReqLine, request |-> UnmarshalRequest(NoReqLine), out |-> <<>>,
     response |-> UnmarshalResponse(NoLine), found |-> FALSE]

TripInit == trip = NoTrip

\* sendRequest takes the id, stores the channel under it and writes the line.
TripSend(id, m, p) ==
    /\ trip.stage = "idle"
    /\ trip' = [trip EXCEPT !.stage = "sent", !.id = id, !.method = m, !.params = p,
                            !.line = WireToServer(RequestLine(id, m), MarshalParams(p))]
    /\ UNCHANGED <<clientVars, serverVars, loopVars>>

\* handleMessage decodes the line and writes its response.
TripServe(h) ==
    /\ trip.stage = "sent"
    /\ LET r == handleMessage(trip.line, h, notifyHandlers, variant) IN
        trip' = [trip EXCEPT !.stage = IF r.panic THEN "panicked" ELSE "served",
                             !.request = UnmarshalRequest(trip.line),
                             !.out = r.writes]
    /\ UNCHANGED <<clientVars, serverVars, loopVars>>

\* readResponses decodes the line the server wrote and looks the id up,
\* c.responses.Load(response.Id.(int64)), under the key trip.id.
TripRead ==
    /\ trip.stage = "served" /\ Len(trip.out) = 1
    /\ LET response == UnmarshalResponse(WireToClient(trip.out[1])) IN
        trip' = [trip EXCEPT !.stage = "read",
                             !.response = response,
                             !.found = /\ response.ok
                                       /\ ~IdAssertPanics(response.Id)
                                       /\ response.Id.v = trip.id]
    /\ UNCHANGED <<clientVars, serverVars, loopVars>>

TripNext ==
    \/ \E id \in TripIds, m \in TripMethods, p \in TripParams : TripSend(id, m, p)
    \/ \E h \in HandlerOutcomes : TripServe(h)
    \/ TripRead

\* ============================================================ serve loop
\* The serve loop of the stdio server step by step: the read it starts, the
\* line it takes, the handler operations MCPServer.Request calls for the
\* line and the response it writes.  The lines are numbered in the order
\* in which they are read.
MaxLoopLines == 3

LoopMethods ==
    {MethodInitialize, MethodPing, "resources/list", "resources/read",
     "resources/subscribe", "resources/unsubscribe", "prompts/list",
     "prompts/get", "tools/list", "tools/call", "logging/setLevel",
     "completion/complete"}
\* Names that differ from a recognized method in one character or in case.
NearMissMethods == {"Ping", "tools/calls", "initialise"}

LoopLines ==
    {NotJSON}
    \cup {ReqLine("object", IdNum(5), JSONRPCVersion, TRUE, m,
                  IF m = MethodPing THEN "absent" ELSE "valid") : m \in LoopMethods}
    \cup {ReqLine("object", IdNum(5), JSONRPCVersion, TRUE, m, "absent") :
            m \in {"resources/list", "tools/list"}}
    \cup {ReqLine("object", IdNum(5), JSONRPCVersion, TRUE, m, "valid") :
            m \in NearMissMethods}
    \cup {ReqLine("object", IdNum(5), JSONRPCVersion, TRUE, "notifications/initialized", "valid")}

\*   pc        "top": at the select at the top of the loop; "wait": waiting
\*             for the read; "handle": in handleMessage before any handler
\*             call; "invoked": in a handler call; "returned"; "crashed"
\*   reads     the reads of stdin started and not yet returned
\*   readChan  the line read and not yet taken by the loop
\*   nRead     the number of lines read
\*   cur, no   the line taken last and its number
\*   h         the outcome of the handler call in progress
\*   inFlight  the handler calls in progress
\*   ops       the handler operations called for cur, in order
\*   started   the numbers of the lines whose handler was called, in order
\*   finished  the number of lines handleMessage has returned for
\*   out       the numbers of the lines whose response was written, in order
NoLoop ==
    [pc |-> "top", cancelled |-> FALSE, reads |-> 0, readChan |-> <<>>,
     nRead |-> 0, cur |-> NoReqLine, no |-> 0, h |-> "none", inFlight |-> 0,
     ops |-> <<>>, started |-> <<>>, finished |-> 0, out |-> <<>>]

LoopInit == loop = NoLoop

\* The select at the top of the loop: return nil if the context is
\* cancelled, else start the read of the next line (the goroutine of
\* stdio.go, the call of reader.Scan in part_002).
LoopTop ==
    /\ loop.pc = "top"
    /\ loop' = IF loop.cancelled
               THEN [loop EXCEPT !.pc = "returned"]
               ELSE [loop EXCEPT !.pc = "wait", !.reads = @ + 1, !.readChan = <<>>]
    /\ UNCHANGED <<clientVars, serverVars, tripVars>>

\* The read returns a line: readChan <- line.
LoopRead(line) ==
    /\ loop.pc = "wait" /\ loop.reads > 0 /\ loop.readChan = <<>>
    /\ loop.nRead < MaxLoopLines
    /\ loop' = [loop EXCEPT !.reads = @ - 1, !.readChan = <<line>>, !.nRead = @ + 1]
    /\ UNCHANGED <<clientVars, serverVars, tripVars>>

\* The read returns io.EOF: errChan <- err, and the loop returns nil.
LoopEOF ==
    /\ loop.pc = "wait" /\ loop.reads > 0 /\ loop.readChan = <<>>
    /\ loop' = [loop EXCEPT !.reads = @ - 1, !.pc = "returned"]
    /\ UNCHANGED <<clientVars, serverVars, tripVars>>

\* A faulty variant: the loop starts the next read when it takes a line.
TakeLineAndReadOn(l) ==
    [l EXCEPT !.pc = "handle", !.cur = Head(l.readChan), !.no = l.nRead,
              !.readChan = <<>>, !.ops = <<>>, !.h = "none", !.reads = @ + 1]

\* case line := <-readChan: the loop calls handleMessage with the line.
TakeLine(l) ==
    [l EXCEPT !.pc = "handle", !.cur = Head(l.readChan), !.no = l.nRead,
              !.readChan = <<>>, !.ops = <<>>, !.h = "none"]

LoopTake ==
    /\ loop.pc = "wait" /\ loop.readChan # <<>>
    /\ loop' = TakeLine(loop)
    /\ UNCHANGED <<clientVars, serverVars, tripVars>>

\* The handler operations MCPServer.Request calls for the line, none when
\* handleMessage answers before it calls Request.
CallsOf(line, nh) ==
    LET request == UnmarshalRequest(line) IN
    IF request.ok /\ request.Jsonrpc = JSONRPCVersion
    THEN Calls(request.Method, request.Params, nh)
    ELSE <<>>

\* MCPServer.Request calls the next handler operation of the line, which
\* will end with the outcome h.
LoopInvoke(h) ==
    /\ loop.pc = "handle"
    /\ Len(loop.ops) < Len(CallsOf(loop.cur, notifyHandlers))
    /\ loop' = [loop EXCEPT !.pc = "invoked", !.h = h, !.inFlight = @ + 1,
                            !.ops = Append(@, CallsOf(loop.cur, notifyHandlers)[Len(@) + 1]),
                            !.started = Append(@, loop.no)]
    /\ UNCHANGED <<clientVars, serverVars, tripVars>>

\* The handler call returns.
LoopReturn ==
    /\ loop.pc = "invoked"
    /\ loop' = [loop EXCEPT !.pc = "handle", !.inFlight = @ - 1]
    /\ UNCHANGED <<clientVars, serverVars, tripVars>>

\* The rest of handleMessage once every handler call has returned: the
\* response is written, or Request panics; then the loop returns or goes
\* back to its top.
LoopRespond ==
    /\ loop.pc = "handle"
    /\ Len(loop.ops) = Len(CallsOf(loop.cur, notifyHandlers))
    /\ LET r == handleMessage(loop.cur, IF loop.h = "none" THEN "ok" ELSE loop.h,
                              notifyHandlers, variant) IN
        loop' = IF r.panic
                THEN [loop EXCEPT !.pc = "crashed"]
                ELSE [loop EXCEPT !.pc = IF StopsOnHandleError(r.err)
                                         THEN "returned" ELSE "top",
                                  !.finished = @ + 1,
                                  !.out = @ \o [i \in 1..Len(r.writes) |-> loop.no]]
    /\ UNCHANGED <<clientVars, serverVars, tripVars>>

\* SIGTERM or SIGINT: the serve context is cancelled.
LoopSignal ==
    /\ loop.pc \notin {"returned", "crashed"} /\ ~loop.cancelled
    /\ loop' = [loop EXCEPT !.cancelled = TRUE]
    /\ UNCHANGED <<clientVars, serverVars, tripVars>>

\* case <-ctx.Done(): return nil, in the select that waits for the read.
LoopShutdown ==
    /\ loop.pc = "wait" /\ loop.cancelled /\ ReadIsInterruptible(variant)
    /\ loop' = [loop EXCEPT !.pc = "returned"]
    /\ UNCHANGED <<clientVars, serverVars, tripVars>>

LoopNext ==
    \/ LoopTop
    \/ \E line \in LoopLines : LoopRead(line)
    \/ LoopEOF
    \/ LoopTake
    \/ \E h \in HandlerOutcomes : LoopInvoke(h)
    \/ LoopReturn
    \/ LoopRespond
    \/ LoopSignal
    \/ LoopShutdown

ServerFrozen ==
    /\ variant = "stdio" /\ notifyHandlers = {} /\ srv = "serving"
    /\ srvRet = "none" /\ ctxCancelled = FALSE /\ stdoutBroken = FALSE
    /\ nIn = 0 /\ nOut = 0 /\ lastLine = NoReqLine /\ lastOut = <<>>
    /\ lastBranch = "none" /\ prevBranch = "none" /\ prevKind = "none"
    /\ lastReq = NoReq /\ dropped = NoReqLine

\* The client alone: the server part of the state stays as constructed.
ClientSpecInit == ClientInit /\ ServerFrozen /\ TripInit /\ LoopInit
ClientSpec == ClientSpecInit /\ [][ClientNext]_vars

\* The server alone: the client part of the state stays as constructed.
ServerSpecInit == ServerInit /\ ClientInit /\ TripInit /\ LoopInit
ServerSpec == ServerSpecInit /\ [][ServerNext]_vars

\* Both programs, each taking its own steps.
\* One request through both programs, which otherwise stay as constructed.
RoundTripSpecInit == ClientInit /\ ServerInit /\ TripInit /\ LoopInit
RoundTripSpec == RoundTripSpecInit /\ [][TripNext]_vars

\* The serve loop step by step; the rest stays as constructed.
LoopSpecInit == ClientInit /\ ServerInit /\ TripInit /\ LoopInit
LoopSpec == LoopSpecInit /\ [][LoopNext]_vars

Init == ClientInit /\ ServerInit /\ TripInit /\ LoopInit
Next == ClientNext \/ ServerNext \/ TripNext \/ LoopNext
Spec == Init /\ [][Next]_vars

\* ================================================================ claims
\* A step in which readResponses reads the line l.
Reads(l) == nRead' = nRead + 1 /\ lastRead' = l
\* A step in which the serve loop handles a line.
Handles == nIn' = nIn + 1
\* After such a step the loop goes on, unless the context is cancelled and
\* the select at the top of the loop returns nil.
GoesOn ==
    IF ctxCancelled THEN srv' = "returned" /\ srvRet' = "nil" ELSE srv' = "serving"

\* C1: a response line whose id is the id of a pending request of a waiting
\* caller is delivered to that caller's channel, whatever else is pending:
\* the caller receives the result of the response carrying its own id.
C1_ResponseReachesItsCaller ==
    [][\A c \in Callers :
         (pc[c] = "await" /\ myId[c] \in responses
          /\ Reads(ResultLine(IdNum(myId[c]))))
         => (~crashed' /\ chan'[myId[c]] = <<[nil |-> FALSE, from |-> myId[c]]>>)]_vars

\* C2: the ids taken by sendRequest are strictly increasing in the order in
\* which they were taken, so no id is taken twice, whatever became of the
\* earlier requests; the id on every request line is the id its caller took.
C2_IdsStrictlyIncreasing ==
    /\ \A i, j \in 1..Len(allocated) : i < j => allocated[i] < allocated[j]
    /\ \A c, d \in Callers : (c # d /\ myId[c] # 0) => myId[c] # myId[d]
    /\ \A i, j \in 1..Len(wire) : i # j => wire[i].id # wire[j].id

\* Two ids were taken while the first request was cancelled or failed to be
\* written.
C2_Witness ==
    /\ Len(allocated) = 2
    /\ \E c \in Callers : ret[c].kind \in {"cancelled", "writeError"} /\ ret[c].id = 1
    /\ \E c \in Callers : myId[c] = 2

\* C3: every line that is a request (an object with an id and a method that
\* is not prefixed notifications/) gets exactly one response line, and the
\* serve loop goes on.
IsRequestLine(l) ==
    l.k = "object" /\ l.id.t \notin {"absent", "null"} /\ l.hasMethod
    /\ ~HasNotificationsPrefix(l.method)
C3_OneResponsePerRequest ==
    [][(Handles /\ IsRequestLine(lastLine')) => (Len(lastOut') = 1 /\ GoesOn)]_vars

\* C4: a notification line (no id, a method prefixed notifications/) makes
\* the server write nothing.
IsNotificationLine(l) ==
    l.k = "object" /\ l.id.t = "absent" /\ l.jsonrpc = JSONRPCVersion /\ l.hasMethod
    /\ HasNotificationsPrefix(l.method)
C4_NotificationWritesNothing ==
    (nIn > 0 /\ IsNotificationLine(lastLine)) => lastOut = <<>>

\* C5: a response line for an id whose request is no longer pending (its
\* caller has cancelled) is dropped: nothing is delivered, nothing fails and
\* the reader keeps reading.
C5_LateResponseIsNoOp ==
    [][\A i \in cancelled :
         (i \notin responses /\ Reads(ResultLine(IdNum(i))))
         => (~crashed' /\ reader' = "running" /\ chan' = chan /\ ret' = ret)]_vars

\* C6: a caller whose ctx is cancelled first returns the cancellation error
\* and its pending entry is removed; a response line that arrives later for
\* that id leaves the process running and the other pending entries as they
\* are.
C6_CancelFreesSlotAndLateResponseIsDropped ==
    [][/\ \A c \in Callers :
            (pc[c] = "await" /\ pc'[c] = "idle" /\ ret'[c].kind = "cancelled")
            => ret'[c].id \notin responses'
       /\ \A c \in Callers :
            (ret[c].kind = "cancelled" /\ Reads(ResultLine(IdNum(ret[c].id))))
            => (~crashed' /\ responses' = responses)]_vars

\* C7: an error response (an error member, no result member) for the id of
\* a request with a waiting caller wakes that caller: its channel holds a
\* value after the line has been read.
C7_ErrorResponseWakesCaller ==
    [][\A c \in Callers :
         (pc[c] = "await" /\ myId[c] \in responses
          /\ Reads(ErrorLine(IdNum(myId[c]))))
         => Len(chan'[myId[c]]) = 1]_vars

\* C8: a malformed line, or a well-formed response whose id matches no
\* pending request, is dropped: the process and the reader go on.
Unmatched(l) ==
    \/ l.k = "bad"
    \/ l.k = "object" /\ l.jsonrpc /\ l.result = "value"
       /\ (l.id.t \in {"str", "null"} \/ (l.id.t = "num" /\ l.id.v \notin responses))
C8_ReaderSurvivesBadInput ==
    [][\A l \in ClientLines :
         (Unmatched(l) /\ Reads(l)) => (~crashed' /\ reader' = "running")]_vars

\* C9: while the client is not initialized, a sendRequest of a method other
\* than initialize returns "client not initialized" at once, taking no id,
\* storing no channel and writing nothing; an initialize request goes on.
C9_UninitializedFailsFast ==
    [][\A c \in Callers :
         (pc[c] = "check" /\ pc'[c] # "check" /\ ~initialized)
         => IF method[c] # MethodInitialize
            THEN /\ pc'[c] = "idle" /\ ret'[c] = Ret("notInitialized", 0)
                 /\ requestID' = requestID /\ allocated' = allocated
                 /\ responses' = responses /\ wire' = wire
            ELSE pc'[c] = "alloc"]_vars

\* One caller was refused before initialization and took no id, while an
\* initialize request of another caller is on the wire.
C9_Witness ==
    \E c, d \in Callers :
        /\ ret[c].kind = "notInitialized" /\ ~initialized
        /\ pc[d] = "await" /\ method[d] = MethodInitialize
        /\ requestID = 1 /\ Len(wire) = 1 /\ responses = {1}

\* C10: a line that is not valid JSON gets exactly one write, of an error
\* response with id null and code -32700; the serve loop goes on, and the
\* line after it is handled like any other.
IsParseErrorResponse(r) ==
    r.kind = "error" /\ r.id = IdNull /\ r.code = ErrorCodeParseError
C10_NotJSONIsAnsweredOnce ==
    [][(Handles /\ lastLine'.k \in {"bad", "nonobject"})
       => /\ Len(lastOut') = 1 /\ IsParseErrorResponse(lastOut'[1])
          /\ nOut' = nOut + (IF stdoutBroken THEN 0 ELSE 1)
          /\ GoesOn]_vars

\* After a line that is not JSON was answered, a ping request was answered
\* with its result.
C10_Witness ==
    /\ prevKind = "bad" /\ prevBranch = "parse" /\ nOut = 2 /\ srv = "serving"
    /\ lastLine = ReqLine("object", IdNum(5), JSONRPCVersion, TRUE, MethodPing, "absent")
    /\ lastOut = <<ResultResponse(IdNum(5), "nil")>>

\* A line that json.Unmarshal decodes into a JSONRPCRequest with all three
\* required members.
IsEnvelope(l) ==
    l.k = "object" /\ l.id.t # "absent" /\ l.jsonrpc # "absent" /\ l.hasMethod
\* An envelope of the right version: the line reaches MCPServer.Request.
IsDispatched(l) == IsEnvelope(l) /\ l.jsonrpc = JSONRPCVersion

C12_UnknownMethodIsMethodNotFound ==
    (nIn > 0 /\ IsDispatched(lastLine) /\ lastLine.method = "unknown/thing")
    => /\ Len(lastOut) = 1
       /\ lastOut[1].kind = "error"
       /\ lastOut[1].id = lastLine.id
       /\ lastOut[1].code = ErrorCodeMethodNotFound
       /\ lastOut[1].msg = MsgOf("method not found", lastLine.method)

\* The params of the line fail to decode for its (recognized) method.
ParamsFailToDecode(l) ==
    Request(l.method, l.params, "ok", notifyHandlers).msg = Msg("failed to parse parameters")

\* C13: when the params of a recognized method fail to decode, the error
\* response has code -32602.
C13_BadParamsIsInvalidParams ==
    (nIn > 0 /\ IsDispatched(lastLine) /\ ParamsFailToDecode(lastLine))
    => /\ Len(lastOut) = 1
       /\ lastOut[1].kind = "error"
       /\ lastOut[1].code = ErrorCodeInvalidParams

\* The line reached its handler and the handler returned an error: with a
\* handler that succeeds the same line gets a result.
HandlerFailed ==
    /\ nIn > 0 /\ IsDispatched(lastLine) /\ lastBranch = "error"
    /\ Request(lastLine.method, lastLine.params, "ok", notifyHandlers).kind = "ok"

\* C14: when the handler returns an error, the error response has code
\* -32603 and its message is the text of the handler's error.
C14_HandlerErrorIsForwarded ==
    HandlerFailed
    => /\ Len(lastOut) = 1
       /\ lastOut[1].kind = "error"
       /\ lastOut[1].code = ErrorCodeInternalError
       /\ lastOut[1].msg \in {HandlerError(h) : h \in HandlerOutcomes \ {"ok"}}

\* C15: every response written for an envelope carries the id of the
\* request unchanged, success and error alike; a response with id null is
\* written only for a line that is no envelope or whose own id is null.
C15_ResponseEchoesId ==
    nIn > 0
    => \A i \in 1..Len(lastOut) :
         /\ IsEnvelope(lastLine) => lastOut[i].id = lastLine.id
         /\ lastOut[i].id = IdNull => (~IsEnvelope(lastLine) \/ lastLine.id = IdNull)

\* C16: the line {"jsonrpc":"2.0","id":5,"method":"ping"}, with a Ping
\* that returns no error, is answered with a success response with id 5
\* whose result is the empty object.
C16_PingResultIsEmptyObject ==
    (/\ nIn > 0 /\ lastBranch = "result"
     /\ lastLine = ReqLine("object", IdNum(5), JSONRPCVersion, TRUE, MethodPing, "absent"))
    => /\ Len(lastOut) = 1
       /\ lastOut[1].kind = "result"
       /\ lastOut[1].id = IdNum(5)
       /\ lastOut[1].result = "{}"

C18_FailedWriteIsFatal ==
    [][(Handles /\ stdoutBroken /\ Len(lastOut') > 0)
       => (srv' = "returned" /\ srvRet' = "error")]_vars

\* C19: when readResponses returns (end of the server's output, a read
\* error, or c.done closed by Close) while requests are pending, every
\* waiter is failed: the step leaves a value on the channel of every caller
\* that waits in the final select, so that the caller returns without its
\* ctx being cancelled.
C19_ClosedConnectionFailsWaiters ==
    [][(reader = "running" /\ reader' = "exited")
       => \A c \in Callers :
            (pc[c] = "await" /\ myId[c] \in responses)
            => Len(chan'[myId[c]]) > 0]_vars

C21_PrefixedMethodIsNotification ==
    (nIn > 0 /\ lastReq.called /\ lastLine.method \in PrefixedMethods)
    => /\ lastReq.invoked \in {"notification", "none"}
       /\ \E h \in HandlerOutcomes :
            lastReq.ret = Notify(lastLine.method, lastLine.params, h, notifyHandlers)

\* The method notifications/ping went to its registered notification
\* handler, not to Ping of the system handler.
C21_Witness ==
    /\ lastLine.method = "notifications/ping" /\ lastReq.called
    /\ lastReq.invoked = "notification" /\ lastReq.ret = ReqOk("nil")

\* C26: a notification whose method has no registered handler is a silent
\* no-op: MCPServer.Request calls no handler and returns no error, the
\* server does not crash and the serve loop goes on.
C26_UnregisteredNotificationIsNoOp ==
    [][(/\ Handles /\ lastReq'.called
        /\ lastLine'.method \in PrefixedMethods
        /\ lastLine'.method \notin notifyHandlers
        /\ ~NotificationDecodeFails(lastLine'.params))
       => /\ lastReq'.invoked = "none"
          /\ lastReq'.ret = ReqOk("nil")
          /\ GoesOn]_vars

\* C27: when the handler registered for a notification method returns an
\* error, MCPServer.Request returns that error, with a nil result.
C27_NotificationHandlerErrorIsReturned ==
    (nIn > 0 /\ lastReq.invoked = "notification" /\ lastReq.handler # "ok")
    => lastReq.ret = ReqErr(HandlerError(lastReq.handler), lastReq.handler = "eof")

\* The handler registered for notifications/initialized failed and Request
\* returned its error.
C27_Witness ==
    /\ lastLine.method = "notifications/initialized"
    /\ lastReq.invoked = "notification" /\ lastReq.handler = "err"
    /\ lastReq.ret.kind = "err" /\ lastReq.ret.result = "nil"
    /\ lastReq.ret.msg = HandlerError("err")

\* C28: a line that is a JSON object without a jsonrpc member or without a
\* method member is answered with code -32600, with the id of the line when
\* it has one.
C28_MissingMemberIsInvalidRequest ==
    (nIn > 0 /\ lastLine.k = "object" /\ (lastLine.jsonrpc = "absent" \/ ~lastLine.hasMethod))
    => /\ Len(lastOut) = 1
       /\ lastOut[1].kind = "error"
       /\ lastOut[1].code = ErrorCodeInvalidRequest
       /\ lastOut[1].id = (IF lastLine.id.t = "absent" THEN IdNull ELSE lastLine.id)

\* C29: the wait for the next line can be interrupted: whenever the context
\* is cancelled and serve has not returned, serve can return without a
\* further line or the end of the input.
C29_ShutdownInterruptsRead ==
    (srv = "serving" /\ ctxCancelled) => ENABLED ServeShutdown

\* C30: when serve has returned, every line it took from the input has been
\* handled: none was read and then dropped.
C30_ShutdownDropsNoLine ==
    srv = "returned" => dropped = NoReqLine

\* The request has reached the server and handleMessage has decoded it.
TripDecoded == trip.stage \in {"served", "panicked", "read"}

\* C22: a request encoded by sendRequest and decoded by handleMessage has
\* the method, the params and the id the client sent; the response echoes
\* that id, and the id readResponses decodes from a result response is the
\* key under which the client stored the pending request.
C22_RoundTrip ==
    /\ TripDecoded
       => /\ trip.request.ok
          /\ trip.request.Method = trip.method
          /\ trip.request.Params = MarshalParams(trip.params)
          /\ MarshalId(trip.request.Id) = IdNum(trip.id)
          /\ \A i \in 1..Len(trip.out) : trip.out[i].id = IdNum(trip.id)
    /\ (trip.stage = "read" /\ trip.out[1].kind = "result") => trip.found

\* C25: the client becomes initialized only in the step in which a caller
\* of initialize takes a result from its channel; a call of initialize that
\* ends in any other way leaves the flag as it was, and the flag is never
\* reset.
C25_InitializedOnlyAfterSuccess ==
    [][/\ initialized => initialized'
       /\ (~initialized /\ initialized')
          => \E c \in Callers :
               /\ pc[c] = "await" /\ method[c] = MethodInitialize
               /\ Len(chan[myId[c]]) > 0 /\ ~Head(chan[myId[c]]).nil
               /\ pc'[c] = "idle" /\ ret'[c].kind = "result"
       /\ \A c \in Callers :
            (/\ method[c] = MethodInitialize /\ pc[c] # "idle" /\ pc'[c] = "idle"
             /\ ret'[c].kind # "result")
            => initialized' = initialized]_vars

\* An initialize request was written and then cancelled, the client is not
\* initialized and a ping was rejected.
C25_Witness ==
    /\ ~initialized /\ Len(wire) = 1 /\ wire[1].method = MethodInitialize
    /\ cancelled = {1}
    /\ \E c, d \in Callers :
         ret[c] = Ret("cancelled", 1) /\ ret[d] = Ret("notInitialized", 0)

\* C23: of a sent request exactly one of two things ends the pending entry:
\* the reader delivers the response into its slot, or the caller cancels.
\* The step that reads the response of a pending request delivers it and
\* removes the entry, and the request is not one that was cancelled; the
\* step in which a caller returns the cancellation error removes the entry
\* of a request into whose slot nothing was delivered.
C23_DeliveredOrCancelledNeverBoth ==
    [][\A i \in Ids :
         /\ (i \in responses /\ Reads(ResultLine(IdNum(i))))
            => (Len(chan'[i]) = 1 /\ i \notin responses' /\ i \notin cancelled')
         /\ (i \in cancelled' /\ i \notin cancelled)
            => (Len(chan[i]) = 0 /\ i \notin responses')]_vars

\* C24: the reader is held up by nothing but the read of the next line: a
\* response (result or error) for a pending request finds the slot of that
\* request empty, is put into it in the same step, and the reader is ready
\* for the next line.
C24_DeliveryNeverBlocks ==
    [][\A i \in responses :
         (Reads(ResultLine(IdNum(i))) \/ Reads(ErrorLine(IdNum(i))))
         => /\ Len(chan[i]) = 0
            /\ Len(chan'[i]) = 1
            /\ ~crashed'
            /\ (reader' = "running" \/ closed)]_vars

\* C31: dispatch is sequential.  No two handler calls are in progress at
\* once and at most one read of the input is outstanding; while a handler
\* runs for line k+1, handleMessage has returned for the lines up to k and
\* every response written so far belongs to one of them; the handlers are
\* called, and the responses written, in the order in which the lines were
\* read.
C31_DispatchIsSequential ==
    /\ loop.inFlight <= 1
    /\ loop.reads <= 1
    /\ loop.pc = "invoked"
       => /\ loop.finished = loop.no - 1
          /\ \A i \in 1..Len(loop.out) : loop.out[i] < loop.no
    /\ \A i, j \in 1..Len(loop.out) : i < j => loop.out[i] <= loop.out[j]
    /\ \A i, j \in 1..Len(loop.started) : i < j => loop.started[i] <= loop.started[j]

\* The handler of the third line runs after the first two lines had their
\* handlers called and their responses written.
C31_Witness ==
    /\ loop.pc = "invoked" /\ loop.no = 3
    /\ loop.out = <<1, 2>>
    /\ loop.started = <<1, 2, 3>>

\* The route table the methods are expected to follow.
RouteTable ==
    {<<"initialize", "system.Initialize">>, <<"ping", "system.Ping">>,
     <<"resources/list", "resource.List">>, <<"resources/read", "resource.Read">>,
     <<"resources/subscribe", "resource.Subscribe">>,
     <<"resources/unsubscribe", "resource.Unsubscribe">>,
     <<"prompts/list", "prompt.List">>, <<"prompts/get", "prompt.Get">>,
     <<"tools/list", "tool.List">>, <<"tools/call", "tool.Call">>,
     <<"logging/setLevel", "system.SetLevel">>,
     <<"completion/complete", "system.Complete">>}
\* handleMessage has returned for a line that reached MCPServer.Request with
\* a method outside notifications/.
RequestHandled ==
    /\ loop.pc \in {"top", "returned"} /\ loop.no > 0
    /\ IsDispatched(loop.cur) /\ ~HasNotificationsPrefix(loop.cur.method)

\* C32: requests are routed by the exact method string.  Once a request is
\* handled, the handler operations called for it are: for a method of the
\* route table its one operation, once; for any other name, none.
C32_RoutedByExactMethod ==
    RequestHandled
    => /\ \A e \in RouteTable : loop.cur.method = e[1] => loop.ops = <<e[2]>>
       /\ (\A e \in RouteTable : loop.cur.method # e[1]) => loop.ops = <<>>

\* The routing alone: whatever is called for a request is the operation of
\* its method, at most once; it is called once when the params decode.
C32_RoutingWhenParamsDecode ==
    RequestHandled
    => /\ Len(loop.ops) <= 1
       /\ \A i \in 1..Len(loop.ops) : <<loop.cur.method, loop.ops[i]>> \in RouteTable
       /\ (loop.cur.params # "absent" /\ \E e \in RouteTable : loop.cur.method = e[1])
          => Len(loop.ops) = 1

\* C33: the route table is fixed at construction.  No step of the serving
\* path changes the set of methods that have a notification handler; the
\* request methods are routed by the switch of MCPServer.Request, which no
\* step can change.
C33_RouteTableIsFixed ==
    [][notifyHandlers' = notifyHandlers]_vars

\* A notification without a registered handler was looked up in a table
\* that has other handlers registered, and one with a handler was handled.
C33_Witness ==
    /\ nIn = 2 /\ notifyHandlers # {}
    /\ prevBranch = "result"
    /\ lastLine.method = "notifications/cancelled" /\ lastReq.called
    /\ lastBranch = "panic"

\* C34: every response line the server writes has exactly one of the
\* members result and error: an error response has no result member, a
\* success response has no error member.
C34_ResultOrErrorNeverBoth ==
    \A i \in 1..Len(lastOut) :
        LET l == WireOf(lastOut[i], variant) IN
        /\ l.error \/ l.result # "absent"
        /\ ~(l.error /\ l.result # "absent")
        /\ l.error <=> lastOut[i].kind = "error"

\* The stdio.go revision has written an error response and, for the line
\* before it, a success response.
C34_Witness ==
    /\ variant = "stdio" /\ nIn = 2
    /\ prevBranch = "result" /\ lastBranch = "error"
    /\ Len(lastOut) = 1 /\ WireOf(lastOut[1], variant).error

\* C35: cancellation is local to the client.  The step in which a waiting
\* caller takes the cancellation of its ctx and returns writes nothing to
\* stdin, leaves the id counter as it is, and changes the pending entry of
\* no other request.
C35_CancelNeverTouchesTheWire ==
    [][\A i \in Ids :
         (i \in cancelled' /\ i \notin cancelled)
         => /\ wire' = wire
            /\ requestID' = requestID
            /\ allocated' = allocated
            /\ \A j \in Ids \ {i} : (j \in responses') <=> (j \in responses)]_vars

\* A caller has returned the cancellation of request 1 while request 2,
\* written to stdin, is still pending.
C35_Witness ==
    /\ cancelled = {1}
    /\ responses = {2}
    /\ Len(wire) = 2
    /\ \E c \in Callers : ret[c] = Ret("cancelled", 1)

\* The request with id i has been written to stdin.
OnWire(i) == \E k \in 1..Len(wire) : wire[k].id = IdNum(i)

\* C36: the pending entry is registered before the request is written, so
\* the response to a written request that was not cancelled finds the
\* entry: the step that reads it puts it into the slot of the request and
\* does not drop it.
C36_ResponseFindsItsEntry ==
    [][\A i \in Ids :
         (OnWire(i) /\ i \notin cancelled /\ Len(chan[i]) = 0
          /\ Reads(ResultLine(IdNum(i))))
         => /\ i \in responses
            /\ Len(chan'[i]) = 1
            /\ ~crashed']_vars

\* The entry of every request on the wire was registered before the write:
\* it is pending unless its caller has cancelled it.
C36_RegisteredBeforeWrite ==
    \A i \in Ids : OnWire(i) => (i \in responses \/ i \in cancelled)

\* C37: no pending entry outlives its request.  When sendRequest has
\* returned because the request could not be encoded or written, the table
\* holds no entry for the id the call had taken; the keys of the table are
\* ids of callers that are still in sendRequest.
C37_NoEntryOutlivesItsRequest ==
    /\ \A c \in Callers :
         ret[c].kind \in {"marshalError", "writeError"} => ret[c].id \notin responses
    /\ \A i \in responses : \E c \in Callers : myId[c] = i /\ pc[c] \in {"write", "await"}

\* C38: an initialize request whose params are an object without
\* capabilities and clientInfo is answered with exactly one error response
\* that carries the id of the request; Initialize of the system handler is
\* not called, the server does not crash and the serve loop goes on.
C38_InitializeWithoutMembersIsAnError ==
    [][(/\ Handles /\ IsDispatched(lastLine')
        /\ lastLine'.method = MethodInitialize /\ lastLine'.params = "empty")
       => /\ Len(lastOut') = 1
          /\ lastOut'[1].kind = "error"
          /\ lastOut'[1].id = lastLine'.id
          /\ lastReq'.invoked = "none"
          /\ srv' # "crashed"
          /\ GoesOn]_vars

\* The list methods that take an optional cursor.
ListMethods == {"resources/list", "prompts/list", "tools/list"}

\* C39: a list request without a params member is a list request without a
\* cursor: List of its handler is called and, when that succeeds, its
\* result is written in a success response.
C39_ListWithoutParamsIsListed ==
    (/\ nIn > 0 /\ IsDispatched(lastLine)
     /\ lastLine.method \in ListMethods /\ lastLine.params = "absent")
    => /\ lastReq.invoked # "none"
       /\ lastReq.handler = "ok"
          => (Len(lastOut) = 1 /\ lastOut[1].kind = "result")

====
